---- MODULE Spec2Model ----
(***************************************************************************)
(* Phase 6 quality validation of siphio/lora-image-generator:             *)
(* validateShot (the validate / refine / regenerate loop), validateImage  *)
(* and refinePrompt of utils/vision-validator.js, validateExercise, which  *)
(* runs the loop over the shots of one exercise and writes the validation *)
(* summary, and main, which runs validateExercise over the exercises and  *)
(* sets the exit status.  One action per await point of validateShot.     *)
(* The last part models runPipeline of generate-video.js, which runs      *)
(* phase 4 (generateVideoScript), phase 5 (generateImagesForExercise of   *)
(* phase1-anchors.js) and phase 6 for one exercise and writes the report. *)
(***************************************************************************)
EXTENDS Integers, Sequences, FiniteSets, TLC

\* ---------------------------------------------------------------- bounds
NumShots == 2
MaxRuns == 2
NumExercises == 2

\* ------------------------------------------------------ program constants
maxIterations == 2

\* shot ids of an exercise, numbered in the order localeCompare gives them
Shots == 1..NumShots

\* the exercise directories under video-scripts
Exercises == 1..NumExercises

\* ------------------------------------------------------------ value space
NoImage == "<none>"
Undefined == -1
InitialPrompt == "p0"
\* raw texts the refinement model may answer with
RefinerTexts == {" p1 ", " "}

\* String.prototype.trim on the texts above
trim(t) == CASE t = " p1 " -> "p1"
             [] t = " " -> ""
             [] OTHER -> t

OrZero_AlwaysZero(x) == 0

\* x || 0 for a number or undefined
OrZero(x) == IF x = Undefined THEN 0 ELSE x

\* ---------------------------------------------------- judge (validateImage)
\* What the vision model call produces: the API call throws, the response has
\* no text block, the text is JSON inside a markdown fence (the text that is
\* not JSON), or the text is JSON.  For JSON, which fields the object carries.
Payload(pass, conf, scores, iss) ==
  [overall_pass |-> pass, confidence |-> conf, criteria_scores |-> scores,
   issues |-> iss]

FullPass == Payload(TRUE, TRUE, TRUE, "empty")

\* the complete verdicts, and verdicts that lack fields: the criteria scores
\* and the issues, or the confidence
JsonPayloads ==
  {FullPass,
   Payload(FALSE, TRUE, TRUE, "some"),
   Payload(FALSE, TRUE, FALSE, "absent"),
   Payload(TRUE, FALSE, TRUE, "empty"),
   Payload(FALSE, FALSE, TRUE, "some")}

JudgeResponses ==
  {[kind |-> k, payload |-> FullPass] : k \in {"apiError", "noText", "fenced"}}
    \cup {[kind |-> "json", payload |-> p] : p \in JsonPayloads}

NoResult ==
  [present |-> FALSE, success |-> FALSE, overall_pass |-> FALSE,
   confidence |-> FALSE, criteria_scores |-> FALSE, issues |-> "absent",
   error |-> ""]

\* the message of the SyntaxError JSON.parse throws: it names the character
\* the parser stopped at, the backtick of a text that opens with a fence
UnexpectedBacktick == "Unexpected token '`'"
SyntaxErrorMessage(resp) ==
  IF resp.kind = "fenced" THEN UnexpectedBacktick ELSE ""

\* the object returned from the SyntaxError branch
ParseFailureResult(resp) ==
  [present |-> TRUE, success |-> FALSE, overall_pass |-> FALSE,
   confidence |-> TRUE, criteria_scores |-> TRUE, issues |-> "parse",
   error |-> SyntaxErrorMessage(resp)]

\* JSON.parse(textContent.text.trim()): a fenced payload is not JSON
JsonParses(resp) == resp.kind = "json"

validateImage(resp) ==
  IF resp.kind \in {"apiError", "noText"}
    THEN [threw |-> TRUE, result |-> NoResult]
    ELSE IF ~JsonParses(resp)
      THEN [threw |-> FALSE, result |-> ParseFailureResult(resp)]
      ELSE [threw |-> FALSE,
            result |-> [present |-> TRUE, success |-> TRUE,
                        overall_pass |-> resp.payload.overall_pass,
                        confidence |-> resp.payload.confidence,
                        criteria_scores |-> resp.payload.criteria_scores,
                        issues |-> resp.payload.issues,
                        error |-> ""]]

\* ------------------------------------------------- refiner (refinePrompt)
RefinerResponses ==
  {[kind |-> k, text |-> " "] : k \in {"apiError", "noText"}}
    \cup {[kind |-> "text", text |-> t] : t \in RefinerTexts}

\* Object.entries(criteriaScores) runs before the try block
refinePrompt(originalPrompt, criteriaScores, resp) ==
  IF ~criteriaScores
    THEN [threw |-> TRUE, prompt |-> originalPrompt, failed |-> TRUE]
    ELSE IF resp.kind = "text"
      THEN [threw |-> FALSE, prompt |-> trim(resp.text), failed |-> FALSE]
      ELSE [threw |-> FALSE, prompt |-> originalPrompt, failed |-> TRUE]

\* ------------------------------------------------------- persisted records
\* prompt.json as stepCreateShotPrompts writes it: no validation_iteration
InitialPromptJson ==
  [engineered_prompt |-> InitialPrompt, validation_iteration |-> Undefined,
   prompt_history |-> << >>]

NoValidation ==
  [present |-> FALSE, success |-> FALSE, overall_pass |-> FALSE,
   confidence |-> FALSE, criteria_scores |-> FALSE, issues |-> "absent",
   iteration |-> 0, prompt_used |-> "", status |-> "absent", error |-> ""]

ValidationData_OffByOne(vr, it, prompt, st, err) ==
  [present |-> TRUE, success |-> vr.success, overall_pass |-> vr.overall_pass,
   confidence |-> vr.confidence, criteria_scores |-> vr.criteria_scores,
   issues |-> vr.issues, iteration |-> it + 1, prompt_used |-> prompt,
   status |-> st, error |-> IF err = "" THEN vr.error ELSE err]

\* {...validationResult, iteration, timestamp, prompt_used, status, error}
ValidationData(vr, it, prompt, st, err) ==
  [present |-> TRUE, success |-> vr.success, overall_pass |-> vr.overall_pass,
   confidence |-> vr.confidence, criteria_scores |-> vr.criteria_scores,
   issues |-> vr.issues, iteration |-> it, prompt_used |-> prompt,
   status |-> st, error |-> IF err = "" THEN vr.error ELSE err]

NoOutcome == [shot |-> 0, status |-> "none", message |-> "", validation |-> NoValidation]

EmptyResults ==
  [approved |-> << >>, flagged |-> << >>, rejected |-> << >>,
   no_image |-> << >>, errors |-> << >>]

NoShotLists ==
  [approved |-> << >>, flagged |-> << >>, rejected |-> << >>,
   no_image |-> << >>, errors |-> << >>]

NoSummary ==
  [written |-> FALSE, total_shots |-> 0, approved |-> 0, flagged |-> 0,
   rejected |-> 0, no_image |-> 0, errors |-> 0, ready_for_assembly |-> FALSE,
   blocking_issues |-> << >>, shots |-> NoShotLists]

VARIABLES
  image,            \* shot -> prompt image.png was generated from, or NoImage
  promptFile,       \* shot -> prompt.json
  validationFile,   \* shot -> validation.json
  summaryFile,      \* validation-summary.json
  processAll,       \* main was started with --all
  ex,                \* position of main's loop in exercises
  allResults,       \* main's allResults
  exitCode,         \* Undefined while the process runs, then its exit status
  run,              \* validateExercise calls started so far
  exPc,             \* "idle" | "running" | "done" | "aborted" | "failed"
  skipRegen,        \* the flag of the current run
  shots,            \* what getShotFolders returned to validateExercise
  i,                \* loop index of validateExercise
  results,          \* the five buckets of validateExercise
  pc,               \* position inside validateShot
  iteration, currentPrompt, validationResult, refinedPrompt,  \* its locals
  startIteration,   \* value read from prompt.json when the call began
  judgeCalls, refineCalls, genCalls,   \* collaborator calls of this call
  refineFailed,     \* refinePrompt did not obtain a refined prompt this cycle
  outcome,          \* what the latest validateShot call returned
  regenerations,    \* shot -> images downloaded over image.png, all runs
  phase,            \* position of generate-video.js, "off" under phase 6's own main
  exerciseName,     \* the name given to generate-video.js
  dirs,             \* the directories that exist under output/video-scripts
  touched,          \* the directory each step of the pipeline worked on
  pipelineResults,  \* results of runPipeline
  j,                \* loop index of generateImagesForExercise
  generatorCalls,   \* shots the running phase 5 called editImage for
  report            \* generation-report.json

files == <<image, promptFile, validationFile, summaryFile>>
process == <<processAll, ex, allResults, exitCode>>
exercise == <<run, exPc, skipRegen, shots, i, results>>
locals == <<iteration, currentPrompt, validationResult, refinedPrompt, startIteration>>
counters == <<judgeCalls, refineCalls, genCalls, refineFailed>>
pipeline == <<phase, exerciseName, dirs, touched, pipelineResults, j,
              generatorCalls, report>>
vars == <<files, process, exercise, pc, locals, counters, outcome, regenerations,
          pipeline>>

\* ------------------------------------------- generate-video.js: its values
\* Exercise names are texts, sequences of characters; the names given on the
\* command line: one that is its own slug, one with a capital and a space.
ExerciseNames == {<<"a", "b">>, <<"A", " ", "b">>}

\* String.prototype.toLowerCase
RECURSIVE toLowerCase(_)
toLowerCase(text) ==
  IF text = << >> THEN << >>
  ELSE <<IF Head(text) = "A" THEN "a" ELSE Head(text)>> \o toLowerCase(Tail(text))

\* the class [a-z0-9]
IsSlugChar(c) == c \in {"a", "b"}

RECURSIVE SkipOthers(_)
SkipOthers(text) ==
  IF text = << >> \/ IsSlugChar(Head(text)) THEN text ELSE SkipOthers(Tail(text))

\* replace(/[^a-z0-9]+/g, "-")
RECURSIVE Hyphenate(_)
Hyphenate(text) ==
  IF text = << >> THEN << >>
  ELSE IF IsSlugChar(Head(text))
    THEN <<Head(text)>> \o Hyphenate(Tail(text))
    ELSE <<"-">> \o Hyphenate(SkipOthers(Tail(text)))

\* replace(/^-|-$/g, "")
StripEnds(text) ==
  LET front == IF text # << >> /\ Head(text) = "-" THEN Tail(text) ELSE text
  IN IF front # << >> /\ front[Len(front)] = "-"
       THEN SubSeq(front, 1, Len(front) - 1)
       ELSE front

slugify(text) == StripEnds(Hyphenate(toLowerCase(text)))

\* no directory
NoDir == << >>

NoTouched ==
  [force |-> NoDir, phase4 |-> NoDir, phase5 |-> NoDir, phase6 |-> NoDir,
   report |-> NoDir]

NoPhase5 ==
  [state |-> "none", totalGenerated |-> 0, totalSkipped |-> 0, totalErrors |-> 0]

NoPhase6 ==
  [state |-> "none", approved |-> 0, flagged |-> 0, rejected |-> 0,
   noImage |-> 0, errors |-> 0]

\* const results = { phase4: null, phase5: null, phase6: null }
NoPipelineResults == [phase4 |-> "none", phase5 |-> NoPhase5, phase6 |-> NoPhase6]

NoReport == [written |-> FALSE, ready_for_assembly |-> FALSE]

\* the process is not generate-video.js: nothing of the pipeline exists
PipelineOff ==
  /\ phase = "off"
  /\ exerciseName = NoDir
  /\ dirs = {}
  /\ touched = NoTouched
  /\ pipelineResults = NoPipelineResults
  /\ j = 0
  /\ generatorCalls = {}
  /\ report = NoReport

\* a directory as phases 4 and 5 leave it: every shot folder has its
\* prompt.json, and phase 5 may have failed to produce some image.png
FreshImages == [Shots -> {NoImage, InitialPrompt}]

\* the program before main starts, over fresh exercise directories
Constructed ==
  /\ promptFile = [s \in Shots |-> InitialPromptJson]
  /\ validationFile = [s \in Shots |-> NoValidation]
  /\ summaryFile = NoSummary
  /\ ex = 1
  /\ allResults = << >>
  /\ exitCode = Undefined
  /\ run = 0
  /\ exPc = "idle"
  /\ skipRegen = FALSE
  /\ shots = << >>
  /\ i = 1
  /\ results = EmptyResults
  /\ pc = "idle"
  /\ iteration = 0
  /\ currentPrompt = ""
  /\ validationResult = NoResult
  /\ refinedPrompt = ""
  /\ startIteration = 0
  /\ judgeCalls = 0
  /\ refineCalls = 0
  /\ genCalls = 0
  /\ refineFailed = FALSE
  /\ outcome = NoOutcome
  /\ regenerations = [s \in Shots |-> 0]

\* main is given one exercise name
Init ==
  /\ Constructed
  /\ image \in FreshImages
  /\ processAll = FALSE
  /\ PipelineOff


\* --------------------------------------------------------- validateExercise
\* the orders in which readdir may list the shot folders
ReaddirOrders ==
  {order \in [Shots -> Shots] : \A a, b \in Shots : a # b => order[a] # order[b]}

\* a.id.localeCompare(b.id) < 0, on ids numbered in that order
Before(a, b) == a < b

\* Array.prototype.sort with the comparator above
RECURSIVE SortById(_)
SortById(folders) ==
  IF folders = << >> THEN << >>
  ELSE LET first == CHOOSE a \in 1..Len(folders) :
                      \A b \in 1..Len(folders) : ~Before(folders[b], folders[a])
           rest == [k \in 1..(Len(folders) - 1) |->
                      IF k < first THEN folders[k] ELSE folders[k + 1]]
       IN <<folders[first]>> \o SortById(rest)

getShotFolders_Unsorted(entries) == entries

\* every folder listed has a prompt.json; the list is returned sorted by id
getShotFolders(entries) == SortById(entries)

\* shots[i], the folder the loop of validateExercise is at
shot == shots[i]

Push_DropsNoImage(res) ==
  CASE res.status = "approved" -> [results EXCEPT !.approved = Append(@, res)]
    [] res.status = "flagged" -> [results EXCEPT !.flagged = Append(@, res)]
    [] res.status = "rejected" -> [results EXCEPT !.rejected = Append(@, res)]
    [] res.status = "error" -> [results EXCEPT !.errors = Append(@, res)]
    [] OTHER -> results

\* the switch on result.status
Push(res) ==
  CASE res.status = "approved" -> [results EXCEPT !.approved = Append(@, res)]
    [] res.status = "flagged" -> [results EXCEPT !.flagged = Append(@, res)]
    [] res.status = "rejected" -> [results EXCEPT !.rejected = Append(@, res)]
    [] res.status = "no_image" -> [results EXCEPT !.no_image = Append(@, res)]
    [] res.status = "error" -> [results EXCEPT !.errors = Append(@, res)]
    [] OTHER -> results

\* entries of results.flagged that carry validation.issues
RECURSIVE FlaggedIssues(_)
FlaggedIssues(items) ==
  IF items = << >> THEN << >>
  ELSE LET item == Head(items)
       IN (IF item.validation.present /\ item.validation.issues # "absent"
             THEN <<[shot |-> item.shot, issues |-> item.validation.issues]>>
             ELSE << >>) \o FlaggedIssues(Tail(items))

ErrorIssues(items) ==
  [k \in 1..Len(items) |-> [shot |-> items[k].shot, issues |-> items[k].message]]

\* results.<bucket>.map(r => r.shot)
ShotIds(items) == [k \in 1..Len(items) |-> items[k].shot]

generateValidationSummary_FlaggedAndErrorsOnly(res, totalShots) ==
  LET approved == Len(res.approved)
      flagged == Len(res.flagged)
      rejected == Len(res.rejected)
      noImage == Len(res.no_image)
      errors == Len(res.errors)
  IN [written |-> TRUE, total_shots |-> totalShots, approved |-> approved,
      flagged |-> flagged, rejected |-> rejected, no_image |-> noImage,
      errors |-> errors,
      ready_for_assembly |-> (flagged = 0 /\ rejected = 0 /\ errors = 0),
      blocking_issues |-> FlaggedIssues(res.flagged) \o ErrorIssues(res.errors),
      shots |-> [approved |-> ShotIds(res.approved),
                 flagged |-> ShotIds(res.flagged),
                 rejected |-> ShotIds(res.rejected),
                 no_image |-> ShotIds(res.no_image),
                 errors |-> ShotIds(res.errors)]]

generateValidationSummary(res, totalShots) ==
  LET approved == Len(res.approved)
      flagged == Len(res.flagged)
      rejected == Len(res.rejected)
      noImage == Len(res.no_image)
      errors == Len(res.errors)
  IN [written |-> TRUE, total_shots |-> totalShots, approved |-> approved,
      flagged |-> flagged, rejected |-> rejected, no_image |-> noImage,
      errors |-> errors,
      ready_for_assembly |->
        (flagged = 0 /\ rejected = 0 /\ errors = 0 /\ noImage = 0
           /\ approved = totalShots),
      blocking_issues |-> FlaggedIssues(res.flagged) \o ErrorIssues(res.errors),
      shots |-> [approved |-> ShotIds(res.approved),
                 flagged |-> ShotIds(res.flagged),
                 rejected |-> ShotIds(res.rejected),
                 no_image |-> ShotIds(res.no_image),
                 errors |-> ShotIds(res.errors)]]

\* validateExercise begins: the shot folders are listed and sorted, the
\* buckets are emptied and the loop starts at the first folder.  No
\* validateShot call is in progress, so its locals and counters are blank.
BeginExercise ==
  /\ run' = run + 1
  /\ exPc' = "running"
  /\ skipRegen' \in BOOLEAN
  /\ \E entries \in ReaddirOrders : shots' = getShotFolders(entries)
  /\ i' = 1
  /\ results' = EmptyResults
  /\ pc' = "begin"
  /\ judgeCalls' = 0
  /\ refineCalls' = 0
  /\ genCalls' = 0
  /\ refineFailed' = FALSE
  /\ validationResult' = NoResult
  /\ refinedPrompt' = ""
  /\ outcome' = NoOutcome
  /\ UNCHANGED <<iteration, currentPrompt, startIteration>>

\* main calls validateExercise for the first of its exercises
StartRun ==
  /\ UNCHANGED pipeline
  /\ UNCHANGED regenerations
  /\ exPc = "idle"
  /\ run = 0
  /\ BeginExercise
  /\ UNCHANGED <<files, process>>

\* the process has exited and phase 6 is started again on the exercise, its
\* files being kept
Rerun ==
  /\ UNCHANGED pipeline
  /\ UNCHANGED regenerations
  /\ exitCode # Undefined
  /\ run < MaxRuns
  /\ BeginExercise
  /\ ex' = 1
  /\ allResults' = << >>
  /\ exitCode' = Undefined
  /\ UNCHANGED <<files, processAll>>

\* validateExercise throws before its loop: the exercise directory is
\* missing or holds no shot folder with a prompt.json
ExerciseFails ==
  /\ UNCHANGED pipeline
  /\ UNCHANGED regenerations
  /\ exPc = "running"
  /\ pc = "begin"
  /\ i = 1
  /\ exPc' = "failed"
  /\ pc' = "idle"
  /\ UNCHANGED <<files, process, run, skipRegen, shots, i, results, locals,
                 counters, outcome>>

\* validateShot returned res: the switch pushes it to its bucket, the loop
\* moves on, and after the last shot the summary is generated and written.
Return(res) ==
  /\ outcome' = res
  /\ results' = Push(res)
  /\ i' = i + 1
  /\ IF i < Len(shots)
       THEN /\ pc' = "begin"
            /\ exPc' = exPc
            /\ summaryFile' = summaryFile
       ELSE /\ pc' = "idle"
            /\ exPc' = "done"
            /\ summaryFile' = generateValidationSummary(Push(res), Len(shots))
  /\ UNCHANGED <<run, skipRegen, shots, process>>

\* validateShot rejected: validateExercise has no handler around the call, so
\* it rejects too; nothing more of the exercise runs, no summary is written.
Throw(msg) ==
  /\ outcome' = [shot |-> shot, status |-> "thrown", message |-> msg, validation |-> NoValidation]
  /\ pc' = "idle"
  /\ exPc' = "aborted"
  /\ UNCHANGED <<run, skipRegen, shots, i, results, summaryFile, process>>

ShotResult(st, msg, vd) == [shot |-> shot, status |-> st, message |-> msg, validation |-> vd]

\* ------------------------------------------------------------- validateShot
LoopCondition(it) == it <= maxIterations

\* the return after the while loop
Unexpected == ShotResult("error", "Unexpected end of validation loop", NoValidation)

\* Lines up to the loop: image.png present, prompt.json loaded, anchor found.
BeginShot ==
  /\ UNCHANGED pipeline
  /\ UNCHANGED regenerations
  /\ exPc = "running"
  /\ pc = "begin"
  /\ judgeCalls' = 0
  /\ refineCalls' = 0
  /\ genCalls' = 0
  /\ refineFailed' = FALSE
  /\ validationResult' = NoResult
  /\ refinedPrompt' = ""
  /\ UNCHANGED <<image, promptFile, validationFile>>
  /\ IF image[shot] = NoImage
       THEN /\ Return(ShotResult("no_image", "No image.png found in shot folder", NoValidation))
            /\ UNCHANGED <<iteration, currentPrompt, startIteration>>
       ELSE \E anchorOk \in BOOLEAN :
              IF ~anchorOk
                THEN /\ Return(ShotResult("error", "Anchor image not found", NoValidation))
                     /\ UNCHANGED <<iteration, currentPrompt, startIteration>>
                ELSE /\ iteration' = OrZero(promptFile[shot].validation_iteration)
                     /\ startIteration' = OrZero(promptFile[shot].validation_iteration)
                     /\ currentPrompt' = promptFile[shot].engineered_prompt
                     /\ IF LoopCondition(OrZero(promptFile[shot].validation_iteration))
                          THEN /\ pc' = "validate"
                               /\ outcome' = ShotResult("running", "", NoValidation)
                               /\ UNCHANGED <<exercise, process, summaryFile>>
                          ELSE Return(Unexpected)
ShouldStop_OffByOne(skip, it) == skip \/ it > maxIterations

ShouldStop_IgnoreSkip(skip, it) == it >= maxIterations

\* "Check if we should regenerate"
ShouldStop(skip, it) == skip \/ it >= maxIterations

JudgeErrorMessage == "Validation failed: judge call failed"
ToFixedTypeError == "Cannot read properties of undefined (reading 'toFixed')"
EntriesTypeError == "Cannot convert undefined or null to object"

\* One validateImage call and the decision that follows it.
Judge ==
  /\ UNCHANGED pipeline
  /\ UNCHANGED regenerations
  /\ pc = "validate"
  /\ \E resp \in JudgeResponses :
       LET v == validateImage(resp)
           vr == v.result
       IN /\ judgeCalls' = judgeCalls + 1
          /\ validationResult' = vr
          /\ refineFailed' = FALSE
          /\ UNCHANGED <<image, promptFile, iteration, currentPrompt, refinedPrompt,
                         startIteration, refineCalls, genCalls>>
          /\ IF v.threw
               THEN /\ Return(ShotResult("error", JudgeErrorMessage, NoValidation))
                    /\ UNCHANGED validationFile
               ELSE IF ~vr.confidence
                 \* validationResult.confidence.toFixed(2) on undefined
                 THEN /\ Throw(ToFixedTypeError)
                      /\ UNCHANGED validationFile
                 ELSE IF vr.overall_pass
                   THEN LET vd == ValidationData(vr, iteration, currentPrompt, "absent", "")
                        IN /\ validationFile' = [validationFile EXCEPT ![shot] = vd]
                           /\ Return(ShotResult("approved", "", vd))
                   ELSE IF ShouldStop(skipRegen, iteration)
                     THEN LET vd == ValidationData(vr, iteration, currentPrompt, "flagged", "")
                          IN /\ validationFile' = [validationFile EXCEPT ![shot] = vd]
                             /\ Return(ShotResult("flagged", "", vd))
                     ELSE /\ pc' = "refine"
                          /\ UNCHANGED <<validationFile, exercise, process, summaryFile, outcome>>

RegenerationFailed_CountsAttempt(msg) ==
  LET vd == ValidationData(validationResult, iteration + 1, currentPrompt, "error", msg)
  IN /\ validationFile' = [validationFile EXCEPT ![shot] = vd]
     /\ Return(ShotResult("error", msg, vd))

\* the catch block of the refine / regenerate section
RegenerationFailed(msg) ==
  LET vd == ValidationData(validationResult, iteration, currentPrompt, "error", msg)
  IN /\ validationFile' = [validationFile EXCEPT ![shot] = vd]
     /\ Return(ShotResult("error", msg, vd))

Refine ==
  /\ UNCHANGED pipeline
  /\ UNCHANGED regenerations
  /\ pc = "refine"
  /\ \E resp \in RefinerResponses :
       LET r == refinePrompt(currentPrompt, validationResult.criteria_scores, resp)
       IN /\ refineCalls' = refineCalls + 1
          /\ refineFailed' = r.failed
          /\ UNCHANGED <<image, promptFile, iteration, currentPrompt, validationResult,
                         startIteration, judgeCalls, genCalls>>
          /\ IF r.threw
               THEN /\ RegenerationFailed(EntriesTypeError)
                    /\ UNCHANGED refinedPrompt
               ELSE /\ refinedPrompt' = r.prompt
                    /\ pc' = "generate"
                    /\ UNCHANGED <<validationFile, exercise, process, summaryFile, outcome>>

NoImageReturned == "No image returned from nano-banana"
FetchFailed == "fetch failed"
WriteFailed == "write failed"

\* editImage(anchorDataUrl, refinedPrompt)
Generate ==
  /\ UNCHANGED pipeline
  /\ UNCHANGED regenerations
  /\ pc = "generate"
  /\ genCalls' = genCalls + 1
  /\ UNCHANGED <<image, promptFile, locals, judgeCalls, refineCalls, refineFailed>>
  /\ \E gen \in {"url", "noImage"} :
       IF gen = "url"
         THEN /\ pc' = "download"
              /\ UNCHANGED <<validationFile, exercise, process, summaryFile, outcome>>
         ELSE RegenerationFailed(NoImageReturned)

\* downloadImage(newImageUrl, imagePath)
Download ==
  /\ UNCHANGED pipeline
  /\ pc = "download"
  /\ UNCHANGED <<promptFile, locals, counters>>
  /\ \E fetched \in BOOLEAN :
       IF fetched
         THEN /\ image' = [image EXCEPT ![shot] = refinedPrompt]
              /\ regenerations' = [regenerations EXCEPT ![shot] = @ + 1]
              /\ pc' = "save"
              /\ UNCHANGED <<validationFile, exercise, process, summaryFile, outcome>>
         ELSE /\ RegenerationFailed(FetchFailed)
              /\ UNCHANGED <<image, regenerations>>

\* "Update prompt data": the refined prompt becomes the engineered prompt,
\* validation_iteration is set, the abandoned prompt joins prompt_history
\* (the issues stored with a history entry are left out of the entry)
UpdatedPromptJson_NoHistory(pd, refined, it, abandoned) ==
  [engineered_prompt |-> refined, validation_iteration |-> it + 1,
   prompt_history |-> pd.prompt_history]

UpdatedPromptJson(pd, refined, it, abandoned) ==
  [engineered_prompt |-> refined, validation_iteration |-> it + 1,
   prompt_history |-> Append(pd.prompt_history,
                             [iteration |-> it, prompt |-> abandoned])]

SavePrompt_StalePrompt ==
  /\ UNCHANGED pipeline
  /\ UNCHANGED regenerations
  /\ pc = "save"
  /\ UNCHANGED <<image, validationResult, refinedPrompt, startIteration, counters>>
  /\ \E written \in BOOLEAN :
       IF written
         THEN /\ promptFile' = [promptFile EXCEPT ![shot] =
                   UpdatedPromptJson(@, refinedPrompt, iteration, currentPrompt)]
              /\ currentPrompt' = currentPrompt
              /\ iteration' = iteration + 1
              /\ UNCHANGED validationFile
              /\ IF LoopCondition(iteration + 1)
                   THEN /\ pc' = "validate"
                        /\ UNCHANGED <<exercise, process, summaryFile, outcome>>
                   ELSE Return(Unexpected)
         ELSE /\ RegenerationFailed(WriteFailed)
              /\ UNCHANGED <<promptFile, currentPrompt, iteration>>

\* prompt.json is updated and written, then the locals advance
SavePrompt ==
  /\ UNCHANGED pipeline
  /\ UNCHANGED regenerations
  /\ pc = "save"
  /\ UNCHANGED <<image, validationResult, refinedPrompt, startIteration, counters>>
  /\ \E written \in BOOLEAN :
       IF written
         THEN /\ promptFile' = [promptFile EXCEPT ![shot] =
                   UpdatedPromptJson(@, refinedPrompt, iteration, currentPrompt)]
              /\ currentPrompt' = refinedPrompt
              /\ iteration' = iteration + 1
              /\ UNCHANGED validationFile
              /\ IF LoopCondition(iteration + 1)
                   THEN /\ pc' = "validate"
                        /\ UNCHANGED <<exercise, process, summaryFile, outcome>>
                   ELSE Return(Unexpected)
         ELSE /\ RegenerationFailed(WriteFailed)
              /\ UNCHANGED <<promptFile, currentPrompt, iteration>>

\* --------------------------------------------------------------------- main
\* exercises.length: every directory of video-scripts with --all, otherwise
\* the one exercise named on the command line
ExerciseCount == IF processAll THEN NumExercises ELSE 1

\* what the try / catch around validateExercise pushes to allResults
ExerciseResult ==
  IF exPc = "done"
    THEN [success |-> TRUE, summary |-> summaryFile]
    ELSE [success |-> FALSE, summary |-> NoSummary]

RECURSIVE Sum(_)
Sum(ns) == IF ns = << >> THEN 0 ELSE Head(ns) + Sum(Tail(ns))

\* the totals main adds up over the entries with success
totalApproved(all) ==
  Sum([k \in 1..Len(all) |-> IF all[k].success THEN all[k].summary.approved ELSE 0])

totalFlagged(all) ==
  Sum([k \in 1..Len(all) |-> IF all[k].success THEN all[k].summary.flagged ELSE 0])

totalErrors(all) ==
  Sum([k \in 1..Len(all) |-> IF all[k].success THEN all[k].summary.errors ELSE 0])

exitStatus_IgnoreFailedRuns(all) ==
  IF totalFlagged(all) > 0 \/ totalErrors(all) > 0 THEN 1 ELSE 0

\* "Exit with error if any issues"; otherwise main returns and node exits 0
exitStatus(all) ==
  IF \/ totalFlagged(all) > 0
     \/ totalErrors(all) > 0
     \/ \E k \in 1..Len(all) : ~all[k].success
    THEN 1
    ELSE 0

\* the exercise directories of a batch: in each, phase 5 produced at most the
\* image of the first shot
BatchImages == {f \in FreshImages : \A s \in Shots : s > 1 => f[s] = NoImage}

\* validateExercise returned or threw and exercises are left: the result is
\* pushed and validateExercise is called on the next directory, with the same
\* flag.  The file variables now stand for that directory.
NextExercise ==
  /\ UNCHANGED pipeline
  /\ regenerations' = [s \in Shots |-> 0]
  /\ exPc \in {"done", "aborted", "failed"}
  /\ exitCode = Undefined
  /\ ex < ExerciseCount
  /\ allResults' = Append(allResults, ExerciseResult)
  /\ ex' = ex + 1
  /\ BeginExercise
  /\ skipRegen' = skipRegen
  /\ image' \in BatchImages
  /\ promptFile' = [s \in Shots |-> InitialPromptJson]
  /\ validationFile' = [s \in Shots |-> NoValidation]
  /\ summaryFile' = NoSummary
  /\ UNCHANGED <<processAll, exitCode>>

Exit_FailFast ==
  /\ UNCHANGED pipeline
  /\ UNCHANGED regenerations
  /\ exPc \in {"done", "aborted", "failed"}
  /\ exitCode = Undefined
  /\ ex = ExerciseCount \/ exPc # "done"
  /\ allResults' = Append(allResults, ExerciseResult)
  /\ exitCode' = exitStatus(Append(allResults, ExerciseResult))
  /\ UNCHANGED <<files, processAll, ex, exercise, pc, locals, counters, outcome>>

\* the last exercise is over: its result is pushed, the totals are printed
\* and the process exits
Exit ==
  /\ UNCHANGED pipeline
  /\ UNCHANGED regenerations
  /\ exPc \in {"done", "aborted", "failed"}
  /\ exitCode = Undefined
  /\ ex = ExerciseCount
  /\ allResults' = Append(allResults, ExerciseResult)
  /\ exitCode' = exitStatus(Append(allResults, ExerciseResult))
  /\ UNCHANGED <<files, processAll, ex, exercise, pc, locals, counters, outcome>>

Next ==
  \/ StartRun
  \/ ExerciseFails
  \/ BeginShot
  \/ Judge
  \/ Refine
  \/ Generate
  \/ Download
  \/ SavePrompt

\* validateExercise on one exercise directory
Spec == Init /\ [][Next]_vars

\* Re-runs of phase 6 over an exercise in which only the first shot has an image
InitRerun == Init /\ \A s \in Shots : s > 1 => image[s] = NoImage

NextRerun == Next \/ Exit \/ Rerun

SpecRerun == InitRerun /\ [][NextRerun]_vars

\* main --all over NumExercises exercise directories
InitBatch ==
  /\ Constructed
  /\ image \in BatchImages
  /\ processAll = TRUE
  /\ PipelineOff

NextBatch == Next \/ NextExercise \/ Exit

SpecBatch == InitBatch /\ [][NextBatch]_vars

\* the same, every call of the process returning or throwing in the end
SpecBatchLive == SpecBatch /\ WF_vars(NextBatch)

\* ------------------------------------------------------- generate-video.js
\* The file variables stand for the directory phases 5 and 6 are given,
\* path.join(videoScriptsDir, exerciseName), once it exists.
exerciseSlug == slugify(exerciseName)

\* the shots for which the image service can deliver in phase 5
Phase5Delivers == {s \in Shots : s <= 2}

\* generate-video.js is started with an exercise name; the directory of
\* that name may exist from earlier runs
InitPipeline ==
  /\ Constructed
  /\ processAll = FALSE
  /\ phase = "args"
  /\ exerciseName \in ExerciseNames
  /\ dirs \in SUBSET {exerciseName}
  /\ image \in IF exerciseName \in dirs THEN BatchImages ELSE {[s \in Shots |-> NoImage]}
  /\ touched = NoTouched
  /\ pipelineResults = NoPipelineResults
  /\ j = 0
  /\ generatorCalls = {}
  /\ report = NoReport

\* runPipeline begins: with --force the exercise directory is removed
RunPipeline ==
  /\ phase = "args"
  /\ phase' = "phase4"
  /\ \E force \in BOOLEAN :
       IF force /\ exerciseSlug \in dirs
         THEN /\ touched' = [touched EXCEPT !.force = exerciseSlug]
              /\ dirs' = dirs \ {exerciseSlug}
              /\ image' = IF exerciseSlug = exerciseName
                             THEN [s \in Shots |-> NoImage]
                             ELSE image
         ELSE UNCHANGED <<dirs, image, touched>>
  /\ UNCHANGED <<promptFile, validationFile, summaryFile, process, exercise, pc,
                 locals, counters, outcome, regenerations, exerciseName,
                 pipelineResults, j, generatorCalls, report>>

AfterPhase4_Continues(success) == "phase5"

\* if (!results.phase4.success) throw
AfterPhase4(success) == IF success THEN "phase5" ELSE "exited"

\* generateVideoScript(exerciseName): the directory of the slug is created,
\* then the steps run; a prompt.json that exists is kept.  A failure is
\* returned as success: false, thrown on by runPipeline and ends main with
\* exit code 1.
Phase4 ==
  /\ phase = "phase4"
  /\ touched' = [touched EXCEPT !.phase4 = exerciseSlug]
  /\ dirs' = dirs \cup {exerciseSlug}
  /\ \E success \in BOOLEAN :
       /\ pipelineResults' =
            [pipelineResults EXCEPT !.phase4 = IF success THEN "ok" ELSE "failed"]
       /\ phase' = AfterPhase4(success)
       /\ exitCode' = IF success THEN Undefined ELSE 1
       /\ promptFile' =
            IF success /\ exerciseSlug = exerciseName /\ exerciseName \notin dirs
              THEN [s \in Shots |-> InitialPromptJson]
              ELSE promptFile
  /\ UNCHANGED <<image, validationFile, summaryFile, processAll, ex, allResults,
                 exercise, pc, locals, counters, outcome, regenerations,
                 exerciseName, j, generatorCalls, report>>

\* generateImagesForExercise(exerciseName) up to its loop
Phase5Begin ==
  /\ phase = "phase5"
  /\ j = 0
  /\ touched' = [touched EXCEPT !.phase5 = exerciseName]
  /\ IF exerciseName \notin dirs
       THEN \* "Exercise not found", caught and thrown on as "Phase 5 failed"
            /\ pipelineResults' = [pipelineResults EXCEPT !.phase5 =
                 [state |-> "threw", totalGenerated |-> 0, totalSkipped |-> 0,
                  totalErrors |-> 1]]
            /\ phase' = "exited"
            /\ exitCode' = 1
            /\ UNCHANGED <<j, shots>>
       ELSE /\ \E entries \in ReaddirOrders : shots' = getShotFolders(entries)
            /\ j' = 1
            /\ pipelineResults' = [pipelineResults EXCEPT !.phase5.state = "running"]
            /\ UNCHANGED <<phase, exitCode>>
  /\ UNCHANGED <<files, processAll, ex, allResults, run, exPc, skipRegen, i,
                 results, pc, locals, counters, outcome, regenerations,
                 exerciseName, dirs, generatorCalls, report>>

ImageExists_Never(s) == FALSE

\* fs.access(imagePath) succeeds
ImageExists(s) == image[s] # NoImage

\* how the body of the loop ends for a shot without image
Phase5Outcomes(s) ==
  {"anchorError", "generationFailed"}
    \cup (IF s \in Phase5Delivers THEN {"saved"} ELSE {})

\* one turn of the loop of generateImagesForExercise; after the last one
\* the totals are returned
Phase5Shot ==
  /\ phase = "phase5"
  /\ j \in 1..Len(shots)
  /\ j' = j + 1
  /\ LET s == shots[j]
         state == IF j = Len(shots) THEN "returned" ELSE "running"
         p5 == pipelineResults.phase5
     IN IF ImageExists(s)
          THEN /\ pipelineResults' = [pipelineResults EXCEPT !.phase5 =
                    [p5 EXCEPT !.state = state, !.totalSkipped = @ + 1]]
               /\ UNCHANGED <<image, generatorCalls>>
          ELSE \E r \in Phase5Outcomes(s) :
                 /\ generatorCalls' =
                      IF r = "anchorError" THEN generatorCalls
                      ELSE generatorCalls \cup {s}
                 /\ IF r = "saved"
                      THEN /\ image' = [image EXCEPT ![s] = promptFile[s].engineered_prompt]
                           /\ pipelineResults' = [pipelineResults EXCEPT !.phase5 =
                                [p5 EXCEPT !.state = state, !.totalGenerated = @ + 1]]
                      ELSE /\ pipelineResults' = [pipelineResults EXCEPT !.phase5 =
                                [p5 EXCEPT !.state = state, !.totalErrors = @ + 1]]
                           /\ UNCHANGED image
  /\ UNCHANGED <<promptFile, validationFile, summaryFile, process, exercise, pc,
                 locals, counters, outcome, regenerations, phase, exerciseName,
                 dirs, touched, report>>

\* phase 5 returned: validateExercise(exerciseName, options.skipRegen)
Phase6Begin ==
  /\ phase = "phase5"
  /\ pipelineResults.phase5.state = "returned"
  /\ phase' = "phase6"
  /\ touched' = [touched EXCEPT !.phase6 = exerciseName]
  /\ generatorCalls' = {}
  /\ BeginExercise
  /\ UNCHANGED <<files, process, regenerations, exerciseName, dirs, pipelineResults,
                 j, report>>

\* what runPipeline stores of a validateExercise call that returned
Phase6Counts(res) ==
  [state |-> "returned",
   approved |-> Len(res.approved), flagged |-> Len(res.flagged),
   rejected |-> Len(res.rejected), noImage |-> Len(res.no_image),
   errors |-> Len(res.errors)]

\* what it stores in the catch block
Phase6Threw ==
  [state |-> "threw", approved |-> 0, flagged |-> 0, rejected |-> 0,
   noImage |-> 0, errors |-> 1]

readyForAssembly_IgnoresNoImage(p6) == p6.flagged = 0 /\ p6.errors = 0

\* readyForAssembly of generateReport
readyForAssembly(p6) == p6.flagged = 0 /\ p6.errors = 0 /\ p6.noImage = 0

generateReport(p6) == [written |-> TRUE, ready_for_assembly |-> readyForAssembly(p6)]

\* validateExercise returned or threw: runPipeline returns and main writes
\* the report and exits, 1 if the report is not ready; or runPipeline throws
\* "Phase 6 failed" and main exits 1.
Report ==
  /\ phase = "phase6"
  /\ exPc \in {"done", "aborted", "failed"}
  /\ exitCode = Undefined
  /\ phase' = "exited"
  /\ IF exPc = "done"
       THEN /\ pipelineResults' = [pipelineResults EXCEPT !.phase6 = Phase6Counts(results)]
            /\ report' = generateReport(Phase6Counts(results))
            /\ touched' = [touched EXCEPT !.report = exerciseSlug]
            /\ exitCode' = IF generateReport(Phase6Counts(results)).ready_for_assembly
                             THEN 0 ELSE 1
       ELSE /\ pipelineResults' = [pipelineResults EXCEPT !.phase6 = Phase6Threw]
            /\ exitCode' = 1
            /\ UNCHANGED <<report, touched>>
  /\ UNCHANGED <<files, processAll, ex, allResults, exercise, pc, locals, counters,
                 outcome, regenerations, exerciseName, dirs, j, generatorCalls>>

NextPipeline ==
  \/ RunPipeline
  \/ Phase4
  \/ Phase5Begin
  \/ Phase5Shot
  \/ Phase6Begin
  \/ ExerciseFails
  \/ BeginShot
  \/ Judge
  \/ Refine
  \/ Generate
  \/ Download
  \/ SavePrompt
  \/ Report

\* generate-video.js on one exercise name
SpecPipeline == InitPipeline /\ [][NextPipeline]_vars


\* ================================================================== claims
InLoop == pc \in {"validate", "refine", "generate", "download", "save"}

\* the latest validateShot call entered the loop and is over
LoopEnded == judgeCalls > 0 /\ outcome.status \notin {"none", "running"}

\* the judge handed back a complete ValidationResult
Complete(vr) == vr.present /\ vr.confidence /\ vr.criteria_scores

AllEntries ==
  {results.approved[k] : k \in 1..Len(results.approved)}
    \cup {results.flagged[k] : k \in 1..Len(results.flagged)}
    \cup {results.rejected[k] : k \in 1..Len(results.rejected)}
    \cup {results.no_image[k] : k \in 1..Len(results.no_image)}
    \cup {results.errors[k] : k \in 1..Len(results.errors)}

\* C1: every call of the loop on a shot ends in exactly one of approved,
\* flagged or error, after at most maxIterations + 1 judge calls, whatever the
\* judge, the refiner and the generator return.
C1_EndsApprovedFlaggedOrError ==
  LoopEnded =>
    /\ outcome.status \in {"approved", "flagged", "error"}
    /\ judgeCalls <= maxIterations + 1

\* C2: the iteration count of a shot never decreases and never exceeds
\* maxIterations, in the loop and in prompt.json, and the iteration recorded in
\* every outcome lies in 0..maxIterations.
IterationInRange ==
  /\ iteration \in 0..maxIterations
  /\ \A s \in Shots :
       /\ OrZero(promptFile[s].validation_iteration) \in 0..maxIterations
       /\ validationFile[s].present => validationFile[s].iteration \in 0..maxIterations
  /\ \A e \in AllEntries :
       e.validation.present => e.validation.iteration \in 0..maxIterations
  /\ outcome.validation.present => outcome.validation.iteration \in 0..maxIterations

IterationNeverDecreases ==
  /\ \A s \in Shots :
       OrZero(promptFile'[s].validation_iteration) >= OrZero(promptFile[s].validation_iteration)
  /\ (InLoop /\ i' = i) => iteration' >= iteration
  /\ (pc = "begin" /\ pc' = "validate") =>
       iteration' = OrZero(promptFile[shot].validation_iteration)

C2_IterationBounded == []IterationInRange /\ [][IterationNeverDecreases]_vars

\* C2 witness: a re-run that starts at the bound, fails again and is flagged
\* with the bound as its recorded iteration
C2_Witness ==
  /\ run = 2
  /\ startIteration = maxIterations
  /\ outcome.status = "flagged"
  /\ outcome.validation.iteration = maxIterations

\* C3: prompt_history has as many entries as the iteration count, in
\* prompt.json at every moment and in the loop at every step, and so in every
\* approved or flagged outcome.
C3_HistoryMatchesIteration ==
  /\ \A s \in Shots :
       Len(promptFile[s].prompt_history) = OrZero(promptFile[s].validation_iteration)
  /\ InLoop => Len(promptFile[shot].prompt_history) = iteration
  /\ \A e \in AllEntries :
       e.status \in {"approved", "flagged"} =>
         Len(promptFile[e.shot].prompt_history) = e.validation.iteration

\* C3 witness: approved on the second attempt, one history entry
C3_Witness ==
  /\ outcome.status = "approved"
  /\ genCalls = 1
  /\ outcome.validation.iteration = 1
  /\ Len(promptFile[outcome.shot].prompt_history) = 1

\* C4: a shot that fails, in whatever way, never aborts the exercise: when
\* the run is over every shot of the exercise has been processed.
C4_EveryShotProcessed ==
  exPc \in {"done", "aborted"} => i = NumShots + 1

\* C5: an unparseable judge response ends the shot with an error outcome and
\* starts no refine / regenerate cycle.
C5_MalformedIsJudgeError ==
  (validationResult.present /\ ~validationResult.success) =>
    /\ outcome.status = "error"
    /\ pc \notin {"refine", "generate", "download", "save"}

\* C6: when the refiner fails in a cycle, the generator is called in that
\* cycle, with the unchanged current prompt.
C6_RefinerFailureFallsBack ==
  refineFailed =>
    \/ pc = "generate" /\ refinedPrompt = currentPrompt
    \/ genCalls = refineCalls

\* C7: when the judge call errors, the error outcome with its message is
\* persisted for the shot and the iteration count is not incremented.
C7_JudgeErrorPersisted ==
  (outcome.status = "error" /\ outcome.message = JudgeErrorMessage) =>
    /\ validationFile[outcome.shot].present
    /\ validationFile[outcome.shot].status = "error"
    /\ validationFile[outcome.shot].error = outcome.message
    /\ OrZero(promptFile[outcome.shot].validation_iteration) = startIteration

\* the first judge call of this validateShot call returned a ValidationResult
\* with overall_pass = true
FirstVerdictPasses ==
  /\ judgeCalls = 1
  /\ Complete(validationResult)
  /\ validationResult.overall_pass

SkipModeFailure ==
  /\ skipRegen
  /\ Complete(validationResult)
  /\ ~validationResult.overall_pass

GeneratorFailed == outcome.message \in {NoImageReturned, FetchFailed}

CoversAllShots(summary) ==
  /\ summary.written
  /\ summary.total_shots = NumShots
  /\ summary.approved + summary.flagged + summary.rejected + summary.no_image
       + summary.errors = NumShots

AllExercisesAttempted ==
  /\ run = NumExercises
  /\ Len(allResults) = NumExercises
  /\ \A k \in 1..Len(allResults) :
       allResults[k].success => CoversAllShots(allResults[k].summary)

SomethingFailed ==
  \/ outcome.status \in {"flagged", "error"}
  \/ exPc \in {"aborted", "failed"}

\* C13: once a shot has ended flagged or in error, or a run on an exercise
\* has failed outright, the process can only exit with a non-zero status.
C13_FailureGivesNonZeroExit ==
  [](SomethingFailed => [](exitCode # Undefined => exitCode = 1))

\* C13 witness: every run returned, no shot ended in error, one shot of an
\* earlier exercise was flagged, and the process exits with status 1
C13_Witness ==
  /\ exitCode = 1
  /\ \A k \in 1..Len(allResults) : allResults[k].success
  /\ totalErrors(allResults) = 0
  /\ allResults[1].summary.flagged = 1
  /\ allResults[NumExercises].summary.flagged = 0

\* the shots whose validateShot call of this run returned the given status
ShotsEnded(st) == {s \in Shots : \E r \in AllEntries : r.shot = s /\ r.status = st}

\* C14: when a run of validateExercise has returned, ready_for_assembly of
\* its summary is true exactly when the number of approved shots is the
\* number of shots and no shot is flagged or in error, the numbers being
\* those of the outcomes validateShot returned in this run.
C14_ReadyIffAllApproved ==
  exPc = "done" =>
    /\ summaryFile.written
    /\ summaryFile.total_shots = NumShots
    /\ summaryFile.ready_for_assembly <=>
         /\ Cardinality(ShotsEnded("approved")) = NumShots
         /\ Cardinality(ShotsEnded("flagged")) = 0
         /\ Cardinality(ShotsEnded("error")) = 0

\* C14 witness: no shot is flagged or in error and the exercise is still not
\* ready, a shot without image not being approved
C14_Witness ==
  /\ exPc = "done"
  /\ ~summaryFile.ready_for_assembly
  /\ ShotsEnded("flagged") = {}
  /\ ShotsEnded("error") = {}
  /\ ShotsEnded("approved") # {}
  /\ ShotsEnded("no_image") # {}

\* the bucket of the summary a returned status is listed under
BucketOf(st) == IF st = "error" THEN "errors" ELSE st

\* the summary lists shot s under the bucket b
ListedUnder(s, b) ==
  \E k \in 1..Len(summaryFile.shots[b]) : summaryFile.shots[b][k] = s

\* C15: when a run of validateExercise has returned, its summary lists every
\* shot under the status its validateShot call returned and under no other,
\* and blocking_issues holds exactly one entry for each flagged shot and each
\* shot in error, and nothing else.
C15_OneBlockingIssuePerFailedShot ==
  exPc = "done" =>
    /\ \A r \in AllEntries :
         \A b \in DOMAIN summaryFile.shots :
           ListedUnder(r.shot, b) <=> b = BucketOf(r.status)
    /\ \A s \in ShotsEnded("flagged") \cup ShotsEnded("error") :
         Cardinality({k \in 1..Len(summaryFile.blocking_issues) :
                        summaryFile.blocking_issues[k].shot = s}) = 1
    /\ Len(summaryFile.blocking_issues) =
         Cardinality(ShotsEnded("flagged") \cup ShotsEnded("error"))

\* the files of shot s are touched by the step
FilesChange(s) ==
  \/ image'[s] # image[s]
  \/ promptFile'[s] # promptFile[s]
  \/ validationFile'[s] # validationFile[s]

\* during a run, the shots whose outcome has been collected are exactly those
\* before the loop index, the folders being in the order of their ids, and
\* what validateShot wrote for them is what is on disk
ProcessedInOrder ==
  exPc = "running" =>
    /\ \A k \in 1..(Len(shots) - 1) : Before(shots[k], shots[k + 1])
    /\ {r.shot : r \in AllEntries} = {shots[k] : k \in 1..(i - 1)}
    /\ \A r \in AllEntries :
         r.validation.present => validationFile[r.shot] = r.validation

\* a step touches the files of the shot the loop is at and of no other, and
\* the loop index moves by one, after the outcome of that shot is collected
OneShotAtATime ==
  /\ \A s \in Shots : FilesChange(s) => exPc = "running" /\ s = shot
  /\ (exPc = "running" /\ i' # i) =>
       /\ i' = i + 1
       /\ \E r \in {results'.approved[k] : k \in 1..Len(results'.approved)}
                  \cup {results'.flagged[k] : k \in 1..Len(results'.flagged)}
                  \cup {results'.no_image[k] : k \in 1..Len(results'.no_image)}
                  \cup {results'.errors[k] : k \in 1..Len(results'.errors)} :
            r.shot = shot

\* C16: the shots of an exercise are processed one at a time in the order of
\* their ids, and everything written for a shot is written before the next
\* shot begins.
C16_ShotsSequentialInOrder == []ProcessedInOrder /\ [][OneShotAtATime]_vars

\* C16 witness: the first shot was regenerated and approved, its files are
\* written, and the second shot is about to begin
C16_Witness ==
  /\ exPc = "running"
  /\ pc = "begin"
  /\ i = 2
  /\ Len(results.approved) = 1
  /\ results.approved[1].shot = shots[1]
  /\ results.approved[1].validation.iteration = 1
  /\ validationFile[shots[1]] = results.approved[1].validation
  /\ image[shots[1]] = promptFile[shots[1]].engineered_prompt

\* the iteration count prompt.json of shot s holds, 0 when it holds none
StoredIteration(s) ==
  IF promptFile[s].validation_iteration = Undefined
    THEN 0
    ELSE promptFile[s].validation_iteration

\* C17: the loop of a shot is entered at the judge call, with the iteration
\* count and the prompt that prompt.json holds at that moment: 0 for a
\* prompt.json as phase 4 wrote it, and on a re-run the count the earlier
\* runs left, which is the number of regenerations they recorded.
C17_StartsFromStoredIteration ==
  (InLoop /\ judgeCalls = 0) =>
    /\ pc = "validate"
    /\ iteration = StoredIteration(shot)
    /\ iteration = startIteration
    /\ iteration = Len(promptFile[shot].prompt_history)
    /\ currentPrompt = promptFile[shot].engineered_prompt
    /\ promptFile[shot] = InitialPromptJson => iteration = 0

\* C17 witness: a re-run enters the loop at the count the first run reached
C17_Witness ==
  /\ run = 2
  /\ pc = "validate"
  /\ judgeCalls = 0
  /\ iteration = maxIterations
  /\ StoredIteration(shot) = maxIterations

\* C18: whenever refinePrompt has returned, what it returned, the prompt the
\* generator is about to be called with, is a non-empty string.
C18_RefinedPromptNonEmpty ==
  pc = "generate" => refinedPrompt # ""

\* C19: a result validateImage hands to the loop carries every field of a
\* ValidationResult: the confidence, the criteria scores and the issues.
C19_VerdictFullyPopulated ==
  validationResult.present =>
    /\ validationResult.confidence
    /\ validationResult.criteria_scores
    /\ validationResult.issues # "absent"

\* C20: once the generator has been called in a cycle, the abandoned prompt
\* of that cycle is in prompt_history and the iteration count has been
\* incremented: both stand at the count the call began with plus the
\* generator calls made.
C20_RecordedBeforeGeneration ==
  pc = "download" =>
    /\ Len(promptFile[shot].prompt_history) = startIteration + genCalls
    /\ StoredIteration(shot) = startIteration + genCalls
    /\ iteration = startIteration + genCalls

\* C21: a judge answer whose JSON is wrapped in a markdown fence is parsed
\* after the fence is stripped, so the loop never holds the parse-failure
\* verdict of a text that JSON.parse gave up on at the opening backtick.
C21_FencedVerdictUsed ==
  validationResult.present => validationResult.error # UnexpectedBacktick

\* C24: an approved or flagged outcome rests on a judge verdict for the image
\* now stored and the prompt now recorded as used.  The step that reports it
\* is a judge call that leaves image.png and prompt.json as the judge saw
\* them; every regeneration of the call was followed by a further judge
\* call; and the prompt recorded with the verdict is the engineered prompt
\* of prompt.json, from which any image regenerated in the call was made.
Verdict == outcome.status \in {"approved", "flagged"}

VerdictOnStoredState ==
  (LoopEnded /\ Verdict) =>
    /\ judgeCalls = genCalls + 1
    /\ outcome.validation.prompt_used = promptFile[outcome.shot].engineered_prompt
    /\ validationFile[outcome.shot] = outcome.validation
    /\ genCalls > 0 => image[outcome.shot] = outcome.validation.prompt_used

VerdictByJudgeStep ==
  (outcome'.status \in {"approved", "flagged"} /\ outcome' # outcome) =>
    /\ pc = "validate"
    /\ judgeCalls' = judgeCalls + 1
    /\ image' = image
    /\ promptFile' = promptFile

C24_VerdictOnStoredImageAndPrompt ==
  []VerdictOnStoredState /\ [][VerdictByJudgeStep]_vars

\* C24 witness: a shot approved after a regeneration, by the judge call
\* that followed it
C24_Witness ==
  /\ LoopEnded
  /\ outcome.status = "approved"
  /\ genCalls = 1
  /\ judgeCalls = 2
  /\ image[outcome.shot] # InitialPrompt

\* C25: outside a refinement cycle, and so whenever a cycle has ended in an
\* error, image.png and prompt.json belong to the same attempt: the
\* engineered prompt persisted for a shot is the prompt its stored image was
\* generated from.
C25_ImageAndPromptChangeTogether ==
  ~InLoop =>
    \A s \in Shots :
      image[s] # NoImage => image[s] = promptFile[s].engineered_prompt

\* C26: however often the loop is run again on a shot whose prompt.json is
\* kept, the regenerations performed for the shot (new images stored over
\* image.png), all runs together, never exceed maxIterations.
C26_RegenerationsBounded ==
  \A s \in Shots : regenerations[s] <= maxIterations

\* the places of the five buckets that hold an entry of shot s
PlacesOf(s) ==
  {bk \in (DOMAIN results) \X (1..NumShots) :
     bk[2] <= Len(results[bk[1]]) /\ results[bk[1]][bk[2]].shot = s}

\* C27: when a run of validateExercise has returned, every shot of the
\* exercise has exactly one entry in the five buckets taken together, and the
\* five counts of the summary add up to its total_shots, the number of shots.
C27_BucketsPartitionShots ==
  exPc = "done" =>
    /\ \A s \in Shots : Cardinality(PlacesOf(s)) = 1
    /\ summaryFile.total_shots = NumShots
    /\ summaryFile.approved + summaryFile.flagged + summaryFile.rejected
         + summaryFile.no_image + summaryFile.errors = summaryFile.total_shots

\* C27 witness: a returned run whose shots ended in different buckets, one
\* of them without image
C27_Witness ==
  /\ exPc = "done"
  /\ summaryFile.no_image = 1
  /\ summaryFile.approved + summaryFile.flagged + summaryFile.errors = NumShots - 1
  /\ Len(results.no_image) = 1

\* C28: when the phase 6 process has exited with code 0, validateExercise
\* returned for every exercise it processed and the summary of every one of
\* them has ready_for_assembly = true.
C28_ExitZeroMeansAllReady ==
  exitCode = 0 =>
    \A k \in 1..Len(allResults) :
      /\ allResults[k].success
      /\ allResults[k].summary.ready_for_assembly

\* C22: the unified pipeline fails fast.  Phase 5 is started only after a
\* phase 4 that reported success, phase 6 only after that and a phase 5 that
\* returned; a phase that fails (phase 4 reports failure, phase 5 or phase 6
\* throws) is the last thing the pipeline does and the process ends with
\* exit code 1; and a process that ends after shots failed inside phase 5
\* ends with exit code 1 as well.
Phase5Started == touched.phase5 # NoDir
Phase6Started == touched.phase6 # NoDir

PhaseFailed ==
  \/ pipelineResults.phase4 = "failed"
  \/ pipelineResults.phase5.state = "threw"
  \/ pipelineResults.phase6.state = "threw"

C22_PipelineFailsFast ==
  /\ Phase5Started => pipelineResults.phase4 = "ok"
  /\ Phase6Started =>
       /\ pipelineResults.phase4 = "ok"
       /\ pipelineResults.phase5.state = "returned"
  /\ PhaseFailed => phase = "exited" /\ exitCode = 1 /\ ~report.written
  /\ (exitCode # Undefined /\ pipelineResults.phase5.totalErrors > 0) => exitCode = 1

\* C22 witness: phase 4 failed, the process has ended with exit code 1 and
\* neither phase 5 nor phase 6 was started
C22_Witness ==
  /\ pipelineResults.phase4 = "failed"
  /\ exitCode = 1
  /\ ~Phase5Started
  /\ ~Phase6Started

\* C23: phase 5 leaves an image.png that exists alone: the turn of its loop
\* for a shot that has an image counts the shot as skipped, calls no
\* generator and writes no image, and no step of phase 5 changes the image
\* of a shot that had one.
Phase5KeepsExistingImages ==
  phase = "phase5" =>
    /\ \A s \in Shots :
         image[s] # NoImage =>
           /\ image'[s] = image[s]
           /\ s \in generatorCalls' => s \in generatorCalls
    /\ (j \in 1..Len(shots) /\ image[shots[j]] # NoImage) =>
         /\ pipelineResults'.phase5.totalSkipped = pipelineResults.phase5.totalSkipped + 1
         /\ image' = image
         /\ generatorCalls' = generatorCalls

C23_ExistingImagesSkipped == [][Phase5KeepsExistingImages]_vars

\* C23 witness: phase 5 returned after it skipped a shot that had its image
\* and generated the image of another
C23_Witness ==
  /\ pipelineResults.phase5.state = "returned"
  /\ pipelineResults.phase5.totalSkipped = 1
  /\ pipelineResults.phase5.totalGenerated = 1
  /\ generatorCalls # {}

\* C29: every step of the pipeline works on one exercise directory: the
\* directory --force removed, the one phase 4 populated, the ones phases 5
\* and 6 were given and the one the report is written to are the same.
C29_OneExerciseDirectory ==
  \A a, b \in DOMAIN touched :
    (touched[a] # NoDir /\ touched[b] # NoDir) => touched[a] = touched[b]

\* C30: the ready_for_assembly of the generation report is the
\* ready_for_assembly of the validation summary that the validateExercise
\* call of the pipeline wrote.
C30_ReportAgreesWithSummary ==
  report.written =>
    /\ summaryFile.written
    /\ report.ready_for_assembly = summaryFile.ready_for_assembly

\* C30 witness: no shot flagged or in error, a shot without image: both say
\* not ready
C30_Witness ==
  /\ report.written
  /\ pipelineResults.phase6.flagged = 0
  /\ pipelineResults.phase6.errors = 0
  /\ pipelineResults.phase6.noImage > 0
  /\ ~report.ready_for_assembly

====
